---- MODULE Spec2Model ----
(***************************************************************************)
(* State-machine model of the Kafka wire-protocol connection handler       *)
(* (src/src/lib.rs, src/src/readers.rs).  Bytes are integers 0..255,       *)
(* buffers are sequences of bytes, and every decoder works on the bytes    *)
(* exactly as the Rust code does (big-endian two's complement, cursor      *)
(* positions counted from the start of the buffer handed to the decoder).  *)
(***************************************************************************)
EXTENDS Integers, Sequences, FiniteSets, TLC

\* ------------------------------------------------------------------------
\* Bounds of the model
\* ------------------------------------------------------------------------
\* number of request frames the peer sends on the connection before closing
MaxRequests == 2

\* ------------------------------------------------------------------------
\* Program constants
\* ------------------------------------------------------------------------
UNKNOWN_SERVER_ERROR == -1
NONE == 0
CORRUPT_MESSAGE == 2
UNSUPPORTED_VERSION == 35
INVALID_REQUEST == 42

FETCH == 1
APIVERSIONS == 18

API_VERS_INFO ==
    << [id |-> APIVERSIONS, min |-> 4, max |-> 4],
       [id |-> FETCH, min |-> 16, max |-> 16] >>

TAG_BUFFER == << 0 >>

\* largest frame length read_request accepts
MAX_FRAME_SIZE == 1000000

\* ------------------------------------------------------------------------
\* Fixed-width big-endian integers
\* ------------------------------------------------------------------------
Byte == 0..255

\* the slice buf[pos .. pos+n) with pos counted from 0
Slice(buf, pos, n) == SubSeq(buf, pos + 1, pos + n)

\* iN::from_be_bytes
i8_from_be_bytes(b) == IF b[1] >= 128 THEN b[1] - 256 ELSE b[1]

i16_from_be_bytes(b) ==
    (IF b[1] >= 128 THEN b[1] - 256 ELSE b[1]) * 256 + b[2]

i32_from_be_bytes(b) ==
    (IF b[1] >= 128 THEN b[1] - 256 ELSE b[1]) * 16777216
        + b[2] * 65536 + b[3] * 256 + b[4]

\* iN::to_be_bytes
u8_to_be_bytes(n) == << n % 256 >>

i16_to_be_bytes(n) ==
    LET u == IF n < 0 THEN n + 65536 ELSE n
    IN  << u \div 256, u % 256 >>

i32_to_be_bytes(n) ==
    LET hi == IF n < 0 THEN (n \div 16777216) + 256 ELSE n \div 16777216
        lo == n % 16777216
    IN  << hi, lo \div 65536, (lo \div 256) % 256, lo % 256 >>

\* ------------------------------------------------------------------------
\* Results of fallible operations: Ok(value, new cursor position) | Err(e)
\* ------------------------------------------------------------------------
Ok(v, p) == [ok |-> TRUE, val |-> v, pos |-> p, err |-> "none"]
Err(e) == [ok |-> FALSE, val |-> 0, pos |-> 0, err |-> e]

\* Cursor::read_exact of n bytes at position pos: UnexpectedEof when fewer
\* than n bytes remain
read_exact(buf, pos, n) ==
    IF pos + n <= Len(buf) THEN Ok(Slice(buf, pos, n), pos + n) ELSE Err("Io")

\* ------------------------------------------------------------------------
\* Primitive readers (readers.rs)
\* ------------------------------------------------------------------------
read_int8(buf, pos) ==
    LET r == read_exact(buf, pos, 1)
    IN  IF r.ok THEN Ok(i8_from_be_bytes(r.val), r.pos) ELSE r

read_int16(buf, pos) ==
    LET r == read_exact(buf, pos, 2)
    IN  IF r.ok THEN Ok(i16_from_be_bytes(r.val), r.pos) ELSE r

read_int32(buf, pos) ==
    LET r == read_exact(buf, pos, 4)
    IN  IF r.ok THEN Ok(i32_from_be_bytes(r.val), r.pos) ELSE r

\* 64-bit and 128-bit values are kept as their big-endian byte strings
\* (from_be_bytes is a bijection and the values are never computed with)
read_int64(buf, pos) == read_exact(buf, pos, 8)

read_int128(buf, pos) == read_exact(buf, pos, 16)

\* String::from_utf8 accepts exactly the well-formed UTF-8 byte strings
RECURSIVE ValidUtf8(_)
ValidUtf8(b) ==
    LET n == Len(b)
        Cont(x) == x >= 128 /\ x <= 191
        Rest(k) == SubSeq(b, k + 1, n)
    IN  IF n = 0 THEN TRUE
        ELSE IF b[1] < 128 THEN ValidUtf8(Rest(1))
        ELSE IF b[1] >= 194 /\ b[1] <= 223
            THEN n >= 2 /\ Cont(b[2]) /\ ValidUtf8(Rest(2))
        ELSE IF b[1] >= 224 /\ b[1] <= 239
            THEN /\ n >= 3
                 /\ Cont(b[2]) /\ Cont(b[3])
                 /\ (b[1] = 224 => b[2] >= 160)
                 /\ (b[1] = 237 => b[2] <= 159)
                 /\ ValidUtf8(Rest(3))
        ELSE IF b[1] >= 240 /\ b[1] <= 244
            THEN /\ n >= 4
                 /\ Cont(b[2]) /\ Cont(b[3]) /\ Cont(b[4])
                 /\ (b[1] = 240 => b[2] >= 144)
                 /\ (b[1] = 244 => b[2] <= 143)
                 /\ ValidUtf8(Rest(4))
        ELSE FALSE

\* Option<String>: None is absent, Some(s) carries the text bytes
None == [some |-> FALSE, text |-> << >>]
Some(s) == [some |-> TRUE, text |-> s]

\* variant: every negative length is read as an absent text
read_nullable_string_any_negative(buf, pos) ==
    LET l == read_int16(buf, pos)
    IN  IF ~l.ok THEN l
        ELSE IF l.val < 0 THEN Ok(None, l.pos)
        ELSE LET r == read_exact(buf, l.pos, l.val)
             IN  IF ~r.ok THEN r
                 ELSE IF ValidUtf8(r.val) THEN Ok(Some(r.val), r.pos)
                 ELSE Err("InvalidString")

\* variant: the bytes are returned whether or not they are UTF-8
read_nullable_string_unchecked(buf, pos) ==
    LET l == read_int16(buf, pos)
    IN  IF ~l.ok THEN l
        ELSE IF l.val = -1 THEN Ok(None, l.pos)
        ELSE IF l.val < 0 THEN Err("InvalidMessageLength")
        ELSE LET r == read_exact(buf, l.pos, l.val)
             IN  IF ~r.ok THEN r ELSE Ok(Some(r.val), r.pos)

read_nullable_string(buf, pos) ==
    LET l == read_int16(buf, pos)
    IN  IF ~l.ok THEN l
        ELSE IF l.val = -1 THEN Ok(None, l.pos)
        ELSE IF l.val < 0 THEN Err("InvalidMessageLength")
        ELSE LET r == read_exact(buf, l.pos, l.val)
             IN  IF ~r.ok THEN r
                 ELSE IF ValidUtf8(r.val) THEN Ok(Some(r.val), r.pos)
                 ELSE Err("InvalidString")

\* Option::unwrap_or_default on Option<String>
unwrap_or_default(o) == IF o.some THEN o.text ELSE << >>

\* ------------------------------------------------------------------------
\* Error mapper (lib.rs)
\* ------------------------------------------------------------------------
\* variant: the codes of the two Unsupported kinds are exchanged
to_error_code_swapped(e) ==
    CASE e = "Io" -> UNKNOWN_SERVER_ERROR
      [] e = "UnsupportedApiKey" -> UNSUPPORTED_VERSION
      [] e = "InvalidMessageLength" -> CORRUPT_MESSAGE
      [] e = "InvalidString" -> CORRUPT_MESSAGE
      [] e = "UnsupportedApiVersion" -> INVALID_REQUEST
      [] e = "CorruptedMessage" -> CORRUPT_MESSAGE

to_error_code(e) ==
    CASE e = "Io" -> UNKNOWN_SERVER_ERROR
      [] e = "UnsupportedApiKey" -> INVALID_REQUEST
      [] e = "InvalidMessageLength" -> CORRUPT_MESSAGE
      [] e = "InvalidString" -> CORRUPT_MESSAGE
      [] e = "UnsupportedApiVersion" -> UNSUPPORTED_VERSION
      [] e = "CorruptedMessage" -> CORRUPT_MESSAGE

\* ------------------------------------------------------------------------
\* The `?` operator: continue with the value on Ok, return the Err otherwise
\* ------------------------------------------------------------------------
Try(r, F(_)) == IF r.ok THEN F(r) ELSE r

\* ------------------------------------------------------------------------
\* Request header decoder
\* ------------------------------------------------------------------------
KafkaRequestHeader_parse(buffer) ==
    Try(read_int16(buffer, 0), LAMBDA api_key :
    Try(read_int16(buffer, api_key.pos), LAMBDA api_ver :
    Try(read_int32(buffer, api_ver.pos), LAMBDA correlation_id :
    Try(read_nullable_string(buffer, correlation_id.pos), LAMBDA client_id :
        Ok([api_key |-> api_key.val,
            api_ver |-> api_ver.val,
            correlation_id |-> correlation_id.val,
            client_id |-> client_id.val], client_id.pos)))))

\* ------------------------------------------------------------------------
\* Fetch request body decoder
\* ------------------------------------------------------------------------
\* the loop `for _ in 0..partitions_size` over RequestPartition (lib.rs 131-148)
RECURSIVE parse_request_partitions(_, _, _, _)
parse_request_partitions(buf, pos, n, partitions) ==
    IF n <= 0 THEN Ok(partitions, pos) ELSE
    Try(read_int32(buf, pos), LAMBDA partition :
    Try(read_int32(buf, partition.pos), LAMBDA current_leader_epoch :
    Try(read_int64(buf, current_leader_epoch.pos), LAMBDA fetch_offset :
    Try(read_int32(buf, fetch_offset.pos), LAMBDA last_fetched_epoch :
    Try(read_int64(buf, last_fetched_epoch.pos), LAMBDA log_start_offset :
    Try(read_int32(buf, log_start_offset.pos), LAMBDA partition_max_bytes :
    Try(read_int8(buf, partition_max_bytes.pos), LAMBDA tag :
        parse_request_partitions(buf, tag.pos, n - 1,
            Append(partitions,
                [partition |-> partition.val,
                 current_leader_epoch |-> current_leader_epoch.val,
                 fetch_offset |-> fetch_offset.val,
                 last_fetched_epoch |-> last_fetched_epoch.val,
                 log_start_offset |-> log_start_offset.val,
                 partition_max_bytes |-> partition_max_bytes.val])))))))))

\* the loop `for _ in 0..topics_size` (lib.rs 123-154)
RECURSIVE parse_request_topics(_, _, _, _)
parse_request_topics(buf, pos, n, topics) ==
    IF n <= 0 THEN Ok(topics, pos) ELSE
    Try(read_int128(buf, pos), LAMBDA topic_id :
    Try(read_int32(buf, topic_id.pos), LAMBDA partitions_size :
        IF partitions_size.val < 0 THEN Err("CorruptedMessage") ELSE
        Try(parse_request_partitions(buf, partitions_size.pos,
                                     partitions_size.val, << >>),
            LAMBDA partitions :
                parse_request_topics(buf, partitions.pos, n - 1,
                    Append(topics, [topic_id |-> topic_id.val,
                                    partitions |-> partitions.val])))))

\* the loop `for _ in 0..partitions_size` over i32 (lib.rs 176-179)
RECURSIVE parse_forgotten_partitions(_, _, _, _)
parse_forgotten_partitions(buf, pos, n, partitions) ==
    IF n <= 0 THEN Ok(partitions, pos) ELSE
    Try(read_int32(buf, pos), LAMBDA partition :
        parse_forgotten_partitions(buf, partition.pos, n - 1,
                                   Append(partitions, partition.val)))

\* the loop `for _ in 0..forgotten_size` (lib.rs 166-185)
RECURSIVE parse_forgotten_topics(_, _, _, _)
parse_forgotten_topics(buf, pos, n, forgotten_topics) ==
    IF n <= 0 THEN Ok(forgotten_topics, pos) ELSE
    Try(read_int128(buf, pos), LAMBDA topic_id :
    Try(read_int32(buf, topic_id.pos), LAMBDA partitions_size :
        IF partitions_size.val < 0 THEN Err("CorruptedMessage") ELSE
        Try(parse_forgotten_partitions(buf, partitions_size.pos,
                                       partitions_size.val, << >>),
            LAMBDA partitions :
                parse_forgotten_topics(buf, partitions.pos, n - 1,
                    Append(forgotten_topics, [topic_id |-> topic_id.val,
                                              partitions |-> partitions.val])))))

\* FetchRequest::parse: the cursor starts at position 0 of `buffer`
FetchRequest_parse(buffer, correlation_id) ==
    Try(read_int32(buffer, 0), LAMBDA max_wait_ms :
    Try(read_int32(buffer, max_wait_ms.pos), LAMBDA min_bytes :
    Try(read_int32(buffer, min_bytes.pos), LAMBDA max_bytes :
    Try(read_int8(buffer, max_bytes.pos), LAMBDA isolation_level :
    Try(read_int32(buffer, isolation_level.pos), LAMBDA session_id :
    Try(read_int32(buffer, session_id.pos), LAMBDA session_epoch :
    Try(read_int32(buffer, session_epoch.pos), LAMBDA topics_size :
        IF topics_size.val < 0 THEN Err("CorruptedMessage") ELSE
    Try(parse_request_topics(buffer, topics_size.pos, topics_size.val, << >>),
        LAMBDA topics :
    Try(read_int8(buffer, topics.pos), LAMBDA tag1 :
    Try(read_int32(buffer, tag1.pos), LAMBDA forgotten_size :
        IF forgotten_size.val < 0 THEN Err("CorruptedMessage") ELSE
    Try(parse_forgotten_topics(buffer, forgotten_size.pos,
                               forgotten_size.val, << >>),
        LAMBDA forgotten_topics :
    Try(read_int8(buffer, forgotten_topics.pos), LAMBDA tag2 :
    Try(read_nullable_string(buffer, tag2.pos), LAMBDA rack_id :
        Ok([correlation_id |-> correlation_id,
            max_wait_ms |-> max_wait_ms.val,
            min_bytes |-> min_bytes.val,
            max_bytes |-> max_bytes.val,
            isolation_level |-> isolation_level.val,
            session_id |-> session_id.val,
            session_epoch |-> session_epoch.val,
            topics |-> topics.val,
            forgotten_topics |-> forgotten_topics.val,
            rack_id |-> unwrap_or_default(rack_id.val)],
           rack_id.pos))))))))))))))

\* ------------------------------------------------------------------------
\* Dispatcher
\* ------------------------------------------------------------------------
\* todo!() unwinds out of process_request and out of handle_connection
Panic == [ok |-> FALSE, val |-> 0, pos |-> 0, err |-> "panic"]

\* the range test `(0..=4).contains(&api_ver)` of both match arms
version_accepted(api_ver) == api_ver >= 0 /\ api_ver <= 4

\* variant: an ApiVersions request with bytes after its header is refused
process_request_reads_body(request_header, request_buffer) ==
    IF request_header.api_key = APIVERSIONS THEN
        IF ~version_accepted(request_header.api_ver)
        THEN Err("UnsupportedApiVersion")
        ELSE IF Len(request_buffer)
                    > KafkaRequestHeader_parse(request_buffer).pos
        THEN Err("CorruptedMessage")
        ELSE Ok([kind |-> "ApiVersions",
                 correlation_id |-> request_header.correlation_id,
                 api_key_versions |-> API_VERS_INFO], 0)
    ELSE IF request_header.api_key = FETCH THEN
        IF ~version_accepted(request_header.api_ver)
        THEN Err("UnsupportedApiVersion")
        ELSE Try(FetchRequest_parse(request_buffer,
                                    request_header.correlation_id),
                 LAMBDA request :
                    Ok([kind |-> "Fetch",
                        correlation_id |-> request.val.correlation_id,
                        throttle_time_ms |-> 0,
                        session_id |-> request.val.session_id,
                        responses |-> << >>], 0))
    ELSE Panic

process_request(request_header, request_buffer) ==
    IF request_header.api_key = APIVERSIONS THEN
        IF ~version_accepted(request_header.api_ver)
        THEN Err("UnsupportedApiVersion")
        ELSE Ok([kind |-> "ApiVersions",
                 correlation_id |-> request_header.correlation_id,
                 api_key_versions |-> API_VERS_INFO], 0)
    ELSE IF request_header.api_key = FETCH THEN
        IF ~version_accepted(request_header.api_ver)
        THEN Err("UnsupportedApiVersion")
        ELSE Try(FetchRequest_parse(request_buffer,
                                    request_header.correlation_id),
                 LAMBDA request :
                    Ok([kind |-> "Fetch",
                        correlation_id |-> request.val.correlation_id,
                        throttle_time_ms |-> 0,
                        session_id |-> request.val.session_id,
                        responses |-> << >>], 0))
    ELSE Panic

\* variant: the error response is built with a default correlation id
error_response_default_id(request_header, e) ==
    [kind |-> "Error",
     correlation_id |-> 0,
     error_code |-> to_error_code(e)]

\* the Err arm of the match on process_request's result in handle_connection
error_response(request_header, e) ==
    [kind |-> "Error",
     correlation_id |-> request_header.correlation_id,
     error_code |-> to_error_code(e)]

\* ------------------------------------------------------------------------
\* The element counts FetchRequest::parse hands to Vec::with_capacity, each
\* before any element of that list is read
\* ------------------------------------------------------------------------
\* the reads up to and including topics_size (lib.rs 108-115)
read_topics_size(buffer) ==
    Try(read_int32(buffer, 0), LAMBDA max_wait_ms :
    Try(read_int32(buffer, max_wait_ms.pos), LAMBDA min_bytes :
    Try(read_int32(buffer, min_bytes.pos), LAMBDA max_bytes :
    Try(read_int8(buffer, max_bytes.pos), LAMBDA isolation_level :
    Try(read_int32(buffer, isolation_level.pos), LAMBDA session_id :
    Try(read_int32(buffer, session_id.pos), LAMBDA session_epoch :
        read_int32(buffer, session_epoch.pos)))))))

\* Vec::with_capacity(partitions_size) inside the loop over topics
RECURSIVE partitions_with_capacity(_, _, _)
partitions_with_capacity(buf, pos, n) ==
    IF n <= 0 THEN {} ELSE
    LET topic_id == read_int128(buf, pos)
        partitions_size == read_int32(buf, topic_id.pos)
        partitions == parse_request_partitions(buf, partitions_size.pos,
                                               partitions_size.val, << >>)
    IN  IF ~topic_id.ok THEN {}
        ELSE IF ~partitions_size.ok \/ partitions_size.val < 0 THEN {}
        ELSE {partitions_size.val}
                \cup (IF ~partitions.ok THEN {}
                      ELSE partitions_with_capacity(buf, partitions.pos, n - 1))

\* Vec::with_capacity(partitions_size) inside the loop over forgotten topics
RECURSIVE forgotten_with_capacity(_, _, _)
forgotten_with_capacity(buf, pos, n) ==
    IF n <= 0 THEN {} ELSE
    LET topic_id == read_int128(buf, pos)
        partitions_size == read_int32(buf, topic_id.pos)
        partitions == parse_forgotten_partitions(buf, partitions_size.pos,
                                                 partitions_size.val, << >>)
    IN  IF ~topic_id.ok THEN {}
        ELSE IF ~partitions_size.ok \/ partitions_size.val < 0 THEN {}
        ELSE {partitions_size.val}
                \cup (IF ~partitions.ok THEN {}
                      ELSE forgotten_with_capacity(buf, partitions.pos, n - 1))

\* every count FetchRequest::parse reserves storage for on `buffer`
with_capacity(buffer) ==
    LET topics_size == read_topics_size(buffer)
        topics == parse_request_topics(buffer, topics_size.pos,
                                       topics_size.val, << >>)
        tag == read_int8(buffer, topics.pos)
        forgotten_size == read_int32(buffer, tag.pos)
    IN  IF ~topics_size.ok \/ topics_size.val < 0 THEN {}
        ELSE {topics_size.val}
                \cup partitions_with_capacity(buffer, topics_size.pos,
                                              topics_size.val)
                \cup (IF ~topics.ok THEN {}
                      ELSE IF ~tag.ok THEN {}
                      ELSE IF ~forgotten_size.ok \/ forgotten_size.val < 0
                      THEN {}
                      ELSE {forgotten_size.val}
                              \cup forgotten_with_capacity(buffer,
                                        forgotten_size.pos,
                                        forgotten_size.val))

\* the reservations process_request makes for this request
reserved(request_header, request_buffer) ==
    IF request_header.api_key = FETCH
            /\ version_accepted(request_header.api_ver)
    THEN with_capacity(request_buffer)
    ELSE {}

\* The allocator's answer is not decided by the program.  A reservation for
\* no more elements than an accepted frame has bytes is taken to succeed; a
\* larger one may succeed or be refused, and a refusal aborts the process.
may_be_refused(count) == count > MAX_FRAME_SIZE

\* ------------------------------------------------------------------------
\* Response encoders (the synchronous part of send_response)
\* ------------------------------------------------------------------------
\* variant: the loop over the table stops after its first row
encode_api_keys_first_row(keys) ==
    IF keys = << >> THEN << >>
    ELSE i16_to_be_bytes(Head(keys).id) \o i16_to_be_bytes(Head(keys).min)
            \o i16_to_be_bytes(Head(keys).max) \o TAG_BUFFER

\* The `for` loops of send_response append the encoding of each element in
\* list order.  The operators below build the same concatenation from the two
\* halves of the list, which keeps the evaluation of long lists shallow.
FirstHalf(list) == SubSeq(list, 1, Len(list) \div 2)
SecondHalf(list) == SubSeq(list, Len(list) \div 2 + 1, Len(list))

RECURSIVE encode_api_keys(_)
encode_api_keys(keys) ==
    IF keys = << >> THEN << >>
    ELSE IF Len(keys) = 1
    THEN i16_to_be_bytes(keys[1].id) \o i16_to_be_bytes(keys[1].min)
            \o i16_to_be_bytes(keys[1].max) \o TAG_BUFFER
    ELSE encode_api_keys(FirstHalf(keys)) \o encode_api_keys(SecondHalf(keys))

RECURSIVE encode_response_partitions(_)
encode_response_partitions(partitions) ==
    IF partitions = << >> THEN << >>
    ELSE IF Len(partitions) = 1
    THEN i32_to_be_bytes(partitions[1].partition_index)
            \o i16_to_be_bytes(partitions[1].error_code) \o TAG_BUFFER
    ELSE encode_response_partitions(FirstHalf(partitions))
            \o encode_response_partitions(SecondHalf(partitions))

\* variant: the partitions count byte is the number of partitions
RECURSIVE encode_response_topics_plain_count(_)
encode_response_topics_plain_count(responses) ==
    IF responses = << >> THEN << >>
    ELSE IF Len(responses) = 1
    THEN responses[1].topic_id
            \o u8_to_be_bytes(Len(responses[1].partitions))
            \o encode_response_partitions(responses[1].partitions)
            \o TAG_BUFFER
    ELSE encode_response_topics_plain_count(FirstHalf(responses))
            \o encode_response_topics_plain_count(SecondHalf(responses))

RECURSIVE encode_response_topics(_)
encode_response_topics(responses) ==
    IF responses = << >> THEN << >>
    ELSE IF Len(responses) = 1
    THEN responses[1].topic_id
            \o u8_to_be_bytes(Len(responses[1].partitions) + 1)
            \o encode_response_partitions(responses[1].partitions)
            \o TAG_BUFFER
    ELSE encode_response_topics(FirstHalf(responses))
            \o encode_response_topics(SecondHalf(responses))

encode_response(response) ==
    CASE response.kind = "ApiVersions" ->
            i32_to_be_bytes(response.correlation_id)
                \o i16_to_be_bytes(NONE)
                \o u8_to_be_bytes(Len(response.api_key_versions) + 1)
                \o encode_api_keys(response.api_key_versions)
                \o << 0, 0, 0, 0 >>
                \o TAG_BUFFER
      [] response.kind = "Fetch" ->
            i32_to_be_bytes(response.throttle_time_ms)
                \o i32_to_be_bytes(response.correlation_id)
                \o i16_to_be_bytes(NONE)
                \o i32_to_be_bytes(response.session_id)
                \o u8_to_be_bytes(Len(response.responses) + 1)
                \o encode_response_topics(response.responses)
                \o TAG_BUFFER
      [] response.kind = "Error" ->
            i32_to_be_bytes(response.correlation_id)
                \o i16_to_be_bytes(response.error_code)

\* ------------------------------------------------------------------------
\* The peer: the request frames it may send (payloads, without the length
\* prefix) and the length prefixes it may put on the wire
\* ------------------------------------------------------------------------
nullable_text(o) ==
    IF o.some THEN i16_to_be_bytes(Len(o.text)) \o o.text
    ELSE i16_to_be_bytes(-1)

\* request header laid out as in the wire format
request_header(api_key, api_ver, correlation_id, client_id) ==
    i16_to_be_bytes(api_key) \o i16_to_be_bytes(api_ver)
        \o i32_to_be_bytes(correlation_id) \o nullable_text(client_id)

\* the seven leading fields of a Fetch request body, topic_count last
fetch_scalars(max_wait_ms, min_bytes, max_bytes, isolation_level,
              session_id, session_epoch, topic_count) ==
    i32_to_be_bytes(max_wait_ms) \o i32_to_be_bytes(min_bytes)
        \o i32_to_be_bytes(max_bytes) \o << isolation_level % 256 >>
        \o i32_to_be_bytes(session_id) \o i32_to_be_bytes(session_epoch)
        \o i32_to_be_bytes(topic_count)

TopicId == << 0,0,0,0, 0,0,0,0, 0,0,0,0, 0,0,0,9 >>
Zero8 == << 0,0,0,0, 0,0,0,0 >>

\* one partition of a topic: six scalars and a tag byte
fetch_partition ==
    i32_to_be_bytes(0) \o i32_to_be_bytes(0) \o Zero8 \o i32_to_be_bytes(0)
        \o Zero8 \o i32_to_be_bytes(0) \o TAG_BUFFER

\* what follows the topics: tag byte, no forgotten topics, tag byte, rack id
fetch_tail(rack_id) ==
    TAG_BUFFER \o i32_to_be_bytes(0) \o TAG_BUFFER \o nullable_text(rack_id)

\* well-formed Fetch bodies
FetchBodiesGood ==
    { fetch_scalars(w, 0, 0, 0, s, 0, 0) \o fetch_tail(None) :
        w \in {0, 1}, s \in {0, 1280} }
    \cup
    { \* one topic with one partition, a rack id
      fetch_scalars(0, 0, 0, 0, 1280, 0, 1) \o TopicId \o i32_to_be_bytes(1)
        \o fetch_partition \o fetch_tail(Some(<< 114 >>)),
      \* one forgotten topic with one partition, an empty rack id
      fetch_scalars(0, 0, 0, 0, 1280, 0, 0) \o TAG_BUFFER
        \o i32_to_be_bytes(1) \o TopicId \o i32_to_be_bytes(1)
        \o i32_to_be_bytes(3) \o TAG_BUFFER \o nullable_text(Some(<< >>)) }

\* malformed Fetch bodies
FetchBodiesBad ==
    { \* topic_count = -1, with and without the rest of the body
      fetch_scalars(0, 0, 0, 0, 0, 0, -1),
      fetch_scalars(0, 0, 0, 0, 1280, 0, -1),
      fetch_scalars(0, 0, 0, 0, 1280, 0, -1) \o fetch_tail(None),
      \* partition_count = -1
      fetch_scalars(0, 0, 0, 0, 1280, 0, 1) \o TopicId
        \o i32_to_be_bytes(-1) \o fetch_tail(None),
      \* forgotten_count = -1
      fetch_scalars(0, 0, 0, 0, 1280, 0, 0) \o TAG_BUFFER
        \o i32_to_be_bytes(-1) \o TAG_BUFFER \o nullable_text(None),
      \* rack_id length -2
      fetch_scalars(0, 0, 0, 0, 1280, 0, 0) \o TAG_BUFFER
        \o i32_to_be_bytes(0) \o TAG_BUFFER \o i16_to_be_bytes(-2),
      \* rack_id that is not UTF-8
      fetch_scalars(0, 0, 0, 0, 1280, 0, 0) \o fetch_tail(Some(<< 255 >>)),
      \* max_bytes = 255, the rest of the body missing
      fetch_scalars(0, 0, 255, 0, 1280, 0, 0),
      \* body that ends early
      fetch_scalars(0, 0, 0, 0, 1280, 0, 0) \o TAG_BUFFER,
      << 0, 0, 0 >>,
      \* topic_count with high bytes FF FE, and with bytes 00 01 FF 00,
      \* the rest of the body missing
      fetch_scalars(0, 0, 0, 0, 0, 0, -131072),
      fetch_scalars(0, 0, 0, 0, 0, 0, 130816) }

CorrIds == {7, -2}
ClientIds == {None, Some(<< 97 >>)}

ApiVersionsFrames ==
    { request_header(APIVERSIONS, v, c, cl) :
        v \in {-1, 0, 4, 5, 16}, c \in CorrIds, cl \in ClientIds }
    \cup { request_header(APIVERSIONS, 4, 7, None) \o << 1, 2 >> }

FetchFrames ==
    { request_header(FETCH, v, 7, None) \o b :
        v \in {4, 16}, b \in FetchBodiesGood \cup FetchBodiesBad }
    \cup
    { request_header(FETCH, 4, c, cl) \o b :
        c \in CorrIds, cl \in ClientIds,
        b \in { fetch_scalars(1, 0, 0, 0, 1280, 0, 0) \o fetch_tail(None),
                fetch_scalars(0, 0, 0, 0, 0, 0, -1) } }
    \cup
    { request_header(FETCH, v, 7, None) \o
        fetch_scalars(0, 0, 0, 0, 1280, 0, 0) \o fetch_tail(None) :
        v \in {-1, 0, 5} }
    \cup
    \* max_bytes = 127 and max_bytes = 1, nothing else unusual
    { request_header(FETCH, 4, 7, None) \o
        fetch_scalars(0, 0, m, 0, 1280, 0, 0) \o fetch_tail(None) :
        m \in {1, 127} }

UnknownKeyFrames ==
    { request_header(k, 4, c, None) : k \in {0, 3, 17, 19}, c \in CorrIds }

\* frames whose header does not decode
BadHeaderFrames ==
    { << 0 >>,
      << 0, 18, 0, 4, 0, 0, 0 >>,
      << 0, 18, 0, 4, 0, 0, 0, 7 >>,
      << 0, 18, 0, 4, 0, 0, 0, 7, 255 >>,
      << 0, 18, 0, 4, 0, 0, 0, 7 >> \o i16_to_be_bytes(-2),
      << 0, 18, 0, 4, 0, 0, 0, 7 >> \o i16_to_be_bytes(5) \o << 97 >>,
      << 0, 18, 0, 4, 0, 0, 0, 7 >> \o i16_to_be_bytes(1) \o << 255 >>,
      << 0, 1, 0, 4, 0, 0, 0, 7 >> \o i16_to_be_bytes(-3)
        \o fetch_scalars(0, 0, 0, 0, 1280, 0, 0) \o fetch_tail(None) }

Frames == ApiVersionsFrames \cup FetchFrames \cup UnknownKeyFrames
            \cup BadHeaderFrames

\* length prefixes outside (0, MAX_FRAME_SIZE]
BadPrefixes ==
    { << 0, 0, 0, 0 >>, << 255, 255, 255, 255 >>, << 128, 0, 0, 0 >>,
      << 127, 255, 255, 255 >>,
      i32_to_be_bytes(MAX_FRAME_SIZE + 1), i32_to_be_bytes(2000000) }

Prefixes ==
    { i32_to_be_bytes(Len(f)) : f \in Frames }
        \cup { i32_to_be_bytes(MAX_FRAME_SIZE) } \cup BadPrefixes

\* ------------------------------------------------------------------------
\* State of one connection handler, of what it has done so far, and of the
\* entry point that spawned it
\* ------------------------------------------------------------------------
VARIABLES
    pc,             \* where handle_connection is: an await point or "stopped"
    stop,           \* why the handler stopped ("running" while it has not)
    nreq,           \* length prefixes read so far
    size,           \* read_request: the decoded length prefix
    body_read,      \* read_request: payload bytes taken from the socket
    request_buffer, \* handle_connection: the frame being answered
    response,       \* handle_connection: the KafkaResponse being sent
    res_buf,        \* send_response: the encoded response body
    out,            \* every byte the peer has received
    frames_read,    \* history: request frames read_request has returned
    responses_written, \* history: responses written and flushed
    answered,       \* history: header correlation id and response variant
                    \* of every request a response was built for
    main_pc         \* where main is

vars == << pc, stop, nreq, size, body_read, request_buffer, response,
           res_buf, out, frames_read, responses_written, answered, main_pc >>

\* what a step of the handler that completes nothing leaves alone
history == << frames_read, responses_written, answered >>

NoResponse == [kind |-> "None"]

\* variant: a zero length is let through
invalid_message_length_zero_ok(sz) == sz < 0 \/ sz > MAX_FRAME_SIZE

\* read_request: the test on the decoded length prefix
invalid_message_length(sz) == sz <= 0 \/ sz > MAX_FRAME_SIZE

\* variant: the declared length counts the 4-byte prefix as well
response_size_with_prefix(response_buffer) == Len(response_buffer) + 4

\* write_response_with_len: `response_buffer.len() as i32`
response_size(response_buffer) == Len(response_buffer)

Init ==
    /\ pc = "read_size"
    /\ stop = "running"
    /\ nreq = 0
    /\ size = 0
    /\ body_read = 0
    /\ request_buffer = << >>
    /\ response = NoResponse
    /\ res_buf = << >>
    /\ out = << >>
    /\ frames_read = 0
    /\ responses_written = 0
    /\ answered = << >>
    /\ main_pc = "spawned"

\* the handler returns or unwinds: its locals are dropped
Stopped(why) ==
    /\ pc' = "stopped"
    /\ stop' = why
    /\ request_buffer' = << >>
    /\ response' = NoResponse
    /\ res_buf' = << >>

\* read_request, first read_exact: the peer closed or the read failed
ReadSizeIo ==
    /\ pc = "read_size"
    /\ Stopped("io")
    /\ UNCHANGED << nreq, size, body_read, out, history, main_pc >>

\* read_request, first read_exact and the length check
ReadSize ==
    /\ pc = "read_size"
    /\ nreq < MaxRequests
    /\ \E size_buf \in Prefixes :
        LET sz == i32_from_be_bytes(size_buf)
        IN  /\ size' = sz
            /\ nreq' = nreq + 1
            /\ body_read' = 0
            /\ IF invalid_message_length(sz)
               THEN Stopped("badlen")
               ELSE /\ pc' = "read_buf"
                    /\ UNCHANGED << stop, request_buffer, response, res_buf >>
    /\ UNCHANGED << out, history, main_pc >>

\* variant: the bytes that did arrive are handed on as the request
ReadBufIo_hands_over ==
    /\ pc = "read_buf"
    /\ \E k \in {0, 1, size - 1} :
        /\ k < size
        /\ body_read' = k
        /\ \E buf \in Frames :
            /\ Len(buf) >= k
            /\ request_buffer' = SubSeq(buf, 1, k)
    /\ pc' = "dispatch"
    /\ UNCHANGED << stop, nreq, size, response, res_buf, out, history,
                    main_pc >>

\* read_request, second read_exact: the peer closed or the read failed after
\* k of the declared bytes
ReadBufIo ==
    /\ pc = "read_buf"
    /\ \E k \in {0, 1, size - 1} :
        /\ k < size
        /\ body_read' = k
    /\ Stopped("io")
    /\ UNCHANGED << nreq, size, out, history, main_pc >>

\* read_request, second read_exact: the whole payload arrived
ReadBuf ==
    /\ pc = "read_buf"
    /\ \E buf \in Frames :
        /\ Len(buf) = size
        /\ request_buffer' = buf
    /\ body_read' = size
    /\ pc' = "dispatch"
    /\ frames_read' = frames_read + 1
    /\ UNCHANGED << stop, nreq, size, response, res_buf, out,
                    responses_written, answered, main_pc >>

\* variant: the response is built but the loop goes on to the next read
\* before writing it
Dispatch_defers_write ==
    /\ pc = "dispatch"
    /\ LET header == KafkaRequestHeader_parse(request_buffer)
       IN  IF ~header.ok
           THEN Stopped("header") /\ UNCHANGED answered
           ELSE LET r == process_request(header.val, request_buffer)
                IN  IF r.err = "panic"
                    THEN Stopped("panic") /\ UNCHANGED answered
                    ELSE LET resp ==
                                IF r.ok THEN r.val
                                ELSE error_response(header.val, r.err)
                         IN  /\ response' = resp
                             /\ res_buf' = encode_response(resp)
                             /\ pc' = "read_size"
                             /\ answered' = Append(answered,
                                    [correlation_id |->
                                        header.val.correlation_id,
                                     kind |-> resp.kind])
                             /\ UNCHANGED << stop, request_buffer >>
    /\ UNCHANGED << nreq, size, body_read, out, frames_read,
                    responses_written, main_pc >>

\* handle_connection from the header decode to the first await of
\* send_response: decode, dispatch, map a failure, encode
Dispatch ==
    /\ pc = "dispatch"
    /\ LET header == KafkaRequestHeader_parse(request_buffer)
       IN  IF ~header.ok
           THEN Stopped("header") /\ UNCHANGED answered
           ELSE LET r == process_request(header.val, request_buffer)
                IN  IF r.err = "panic"
                    THEN Stopped("panic") /\ UNCHANGED answered
                    ELSE LET resp ==
                                IF r.ok THEN r.val
                                ELSE error_response(header.val, r.err)
                         IN  \/ /\ response' = resp
                                /\ res_buf' = encode_response(resp)
                                /\ pc' = "write_size"
                                /\ answered' = Append(answered,
                                       [correlation_id |->
                                           header.val.correlation_id,
                                        kind |-> resp.kind])
                                /\ UNCHANGED << stop, request_buffer >>
                             \* a reservation is refused: the process aborts
                             \/ /\ \E count \in reserved(header.val,
                                                       request_buffer) :
                                        may_be_refused(count)
                                /\ Stopped("abort")
                                /\ UNCHANGED answered
    /\ UNCHANGED << nreq, size, body_read, out, frames_read,
                    responses_written, main_pc >>

\* write_response_with_len, first write_all
WriteSize ==
    /\ pc = "write_size"
    /\ out' = out \o i32_to_be_bytes(response_size(res_buf))
    /\ pc' = "write_payload"
    /\ UNCHANGED << stop, nreq, size, body_read, request_buffer, response,
                    res_buf, history, main_pc >>

\* write_response_with_len, first write_all fails after k bytes
WriteSizeIo ==
    /\ pc = "write_size"
    /\ \E k \in 0..3 :
        out' = out \o SubSeq(i32_to_be_bytes(response_size(res_buf)), 1, k)
    /\ Stopped("io")
    /\ UNCHANGED << nreq, size, body_read, history, main_pc >>

\* write_response_with_len, second write_all
WritePayload ==
    /\ pc = "write_payload"
    /\ out' = out \o res_buf
    /\ pc' = "flush"
    /\ UNCHANGED << stop, nreq, size, body_read, request_buffer, response,
                    res_buf, history, main_pc >>

\* write_response_with_len, second write_all fails after k bytes
WritePayloadIo ==
    /\ pc = "write_payload"
    /\ \E k \in 0..(Len(res_buf) - 1) :
        out' = out \o SubSeq(res_buf, 1, k)
    /\ Stopped("io")
    /\ UNCHANGED << nreq, size, body_read, history, main_pc >>

\* write_response_with_len, flush; the loop goes back to read_request
Flush ==
    /\ pc = "flush"
    /\ pc' = "read_size"
    /\ request_buffer' = << >>
    /\ response' = NoResponse
    /\ res_buf' = << >>
    /\ responses_written' = responses_written + 1
    /\ UNCHANGED << stop, nreq, size, body_read, out, frames_read, answered,
                    main_pc >>

\* write_response_with_len, flush fails
FlushIo ==
    /\ pc = "flush"
    /\ Stopped("io")
    /\ UNCHANGED << nreq, size, body_read, out, history, main_pc >>

Next ==
    \/ ReadSizeIo
    \/ ReadSize
    \/ ReadBufIo
    \/ ReadBuf
    \/ Dispatch
    \/ WriteSize
    \/ WriteSizeIo
    \/ WritePayload
    \/ WritePayloadIo
    \/ Flush
    \/ FlushIo

Spec == Init /\ [][Next]_vars

\* ------------------------------------------------------------------------
\* Vocabulary of the properties
\* ------------------------------------------------------------------------
\* a response has been built for request_buffer and is being written
Writing == pc \in {"write_size", "write_payload", "flush"}

\* the decoded header of the frame being answered
Hdr == KafkaRequestHeader_parse(request_buffer).val

\* position of the first byte after the header in the frame being answered
HdrEnd == KafkaRequestHeader_parse(request_buffer).pos

\* the last n bytes of a buffer
Suffix(buf, n) == SubSeq(buf, Len(buf) - n + 1, Len(buf))

\* the correlation_id field of an encoded response body: the second field
\* of a Fetch response, the first field of the two other variants
WireCorrelationId(kind, body) ==
    IF kind = "Fetch" THEN i32_from_be_bytes(Slice(body, 4, 4))
    ELSE i32_from_be_bytes(Slice(body, 0, 4))

\* the Supported-API Table as a lookup
TableKeys == { API_VERS_INFO[i].id : i \in DOMAIN API_VERS_INFO }
TableRow(k) ==
    API_VERS_INFO[CHOOSE i \in DOMAIN API_VERS_INFO : API_VERS_INFO[i].id = k]
InTableRange(k, v) == v >= TableRow(k).min /\ v <= TableRow(k).max

\* ------------------------------------------------------------------------
\* C1  Correlation echo: every response built and written for a frame whose
\* header decoded carries, in its correlation_id field on the wire, the
\* correlation_id of that frame's header, whichever variant it is; once the
\* payload is written the peer's bytes end with that frame.
\* ------------------------------------------------------------------------
C1_CorrelationEcho ==
    /\ Writing =>
        /\ response.correlation_id = Hdr.correlation_id
        /\ WireCorrelationId(response.kind, res_buf) = Hdr.correlation_id
    /\ pc = "flush" =>
        /\ Len(out) >= Len(res_buf) + 4
        /\ Suffix(out, Len(res_buf)) = res_buf
        /\ WireCorrelationId(response.kind, Suffix(out, Len(res_buf)))
              = Hdr.correlation_id

\* an error response with a negative correlation id has been written
C1_Witness ==
    /\ pc = "flush"
    /\ response.kind = "Error"
    /\ Hdr.correlation_id = -2
    /\ Suffix(out, 6) = << 255, 255, 255, 254 >>
                            \o i16_to_be_bytes(response.error_code)

\* ------------------------------------------------------------------------
\* C2  Version-range check, as claimed: for a key of the Supported-API
\* Table the request is answered with ErrorResponse 35 (and its correlation
\* id) exactly when api_version lies outside the table's [min, max].
\* ------------------------------------------------------------------------
C2_VersionRangeCheck ==
    (Writing /\ Hdr.api_key \in TableKeys) =>
        ( ( /\ response.kind = "Error"
            /\ response.error_code = UNSUPPORTED_VERSION
            /\ response.correlation_id = Hdr.correlation_id )
          <=> ~InTableRange(Hdr.api_key, Hdr.api_ver) )

\* ------------------------------------------------------------------------
\* C3  Unknown API key, as claimed: dispatching a frame whose header
\* decodes and whose api_key is not in the Supported-API Table leads to an
\* ErrorResponse with code 42 and the request's correlation id being
\* written; the handler does not abort.
\* ------------------------------------------------------------------------
C3_UnknownKeyAnswered ==
    [][ ( /\ pc = "dispatch"
          /\ KafkaRequestHeader_parse(request_buffer).ok
          /\ Hdr.api_key \notin TableKeys )
        => ( /\ pc' = "write_size"
             /\ response'.kind = "Error"
             /\ response'.error_code = INVALID_REQUEST
             /\ response'.correlation_id = Hdr.correlation_id ) ]_vars

\* ------------------------------------------------------------------------
\* C4  End-to-end version negotiation.  The frame api_key=18,
\* api_version=4, correlation_id=7, client_id absent.
\* ------------------------------------------------------------------------
C4_Request == request_header(APIVERSIONS, 4, 7, None)

\* as claimed: the body is correlation_id=7, error_code=0, count byte 2,
\* the single entry {18,4,4} with its tag byte, throttle_time_ms=0, tag byte
C4_OneEntry ==
    (Writing /\ request_buffer = C4_Request) =>
        res_buf = << 0, 0, 0, 7,   0, 0,   2,
                     0, 18, 0, 4, 0, 4, 0,
                     0, 0, 0, 0,   0 >>

\* as amended: the body is correlation_id=7, error_code=0, count byte 3,
\* the two entries {18,4,4} and {1,16,16}, each with its tag byte,
\* throttle_time_ms=0, tag byte; the frame on the wire declares 26 bytes
C4_TwoEntries ==
    /\ (Writing /\ request_buffer = C4_Request) =>
        res_buf = << 0, 0, 0, 7,   0, 0,   3,
                     0, 18, 0, 4, 0, 4, 0,
                     0, 1, 0, 16, 0, 16, 0,
                     0, 0, 0, 0,   0 >>
    /\ (pc = "flush" /\ request_buffer = C4_Request) =>
        Suffix(out, 30) = << 0, 0, 0, 26 >> \o res_buf

\* the response to that frame has been written
C4_Witness ==
    /\ pc = "flush"
    /\ request_buffer = C4_Request
    /\ response.kind = "ApiVersions"

\* ------------------------------------------------------------------------
\* Fetch requests as the wire format lays them out: the body starts at the
\* first byte after the header
\* ------------------------------------------------------------------------
Body == SubSeq(request_buffer, HdrEnd + 1, Len(request_buffer))

\* the seventh body field, present when the body has at least 25 bytes
BodyTopicCount == i32_from_be_bytes(Slice(Body, 21, 4))

\* the fifth body field
BodySessionId == i32_from_be_bytes(Slice(Body, 13, 4))

\* the body decodes, field by field, and the decoder uses all of it
WellFormedFetchBody(body) ==
    LET r == FetchRequest_parse(body, 0)
    IN  r.ok /\ r.pos = Len(body)

\* ------------------------------------------------------------------------
\* C5  Negative topic count in Fetch, as claimed: a Fetch request with a
\* valid header and a version the dispatcher accepts, whose body carries
\* topic_count = -1 as its seventh field, is answered with ErrorResponse 2
\* (CORRUPT_MESSAGE) and the request's correlation id.
\* ------------------------------------------------------------------------
C5_NegativeTopicCount ==
    ( /\ Writing
      /\ Hdr.api_key = FETCH
      /\ version_accepted(Hdr.api_ver)
      /\ Len(Body) >= 25
      /\ BodyTopicCount = -1 )
    => ( /\ response.kind = "Error"
         /\ response.error_code = CORRUPT_MESSAGE
         /\ response.correlation_id = Hdr.correlation_id )

\* ------------------------------------------------------------------------
\* C6  Fetch handler result, as claimed: a well-formed Fetch request the
\* dispatcher accepts is answered with a FetchResponse whose body is
\* throttle_time_ms 0, the correlation id, error_code 0, the session_id of
\* the request body, count byte 1 and the closing tag byte.
\* ------------------------------------------------------------------------
C6_FetchResult ==
    ( /\ Writing
      /\ Hdr.api_key = FETCH
      /\ version_accepted(Hdr.api_ver)
      /\ WellFormedFetchBody(Body) )
    => ( /\ response.kind = "Fetch"
         /\ response.throttle_time_ms = 0
         /\ response.session_id = BodySessionId
         /\ res_buf = i32_to_be_bytes(0)
                        \o i32_to_be_bytes(Hdr.correlation_id)
                        \o i16_to_be_bytes(0)
                        \o i32_to_be_bytes(BodySessionId)
                        \o << 1 >> \o << 0 >> )

\* ------------------------------------------------------------------------
\* C7  Malformed frame length is fatal and silent: a step that decodes a
\* length prefix n with n <= 0 or n > 1,000,000 stops the handler with the
\* malformed-length condition, takes no payload byte from the socket, hands
\* nothing to the header decoder, writes nothing; the handler takes no
\* further step.
\* ------------------------------------------------------------------------
C7_MalformedLengthFatal ==
    [][ /\ ( /\ pc = "read_size"
             /\ nreq' # nreq
             /\ (size' <= 0 \/ size' > MAX_FRAME_SIZE) )
           => ( /\ pc' = "stopped"
                /\ stop' = "badlen"
                /\ body_read' = 0
                /\ request_buffer' = << >>
                /\ response' = NoResponse
                /\ out' = out )
        /\ stop # "badlen" ]_vars

\* the handler stopped on the prefix 2,000,000 after answering a request
C7_Witness ==
    /\ pc = "stopped"
    /\ stop = "badlen"
    /\ size = 2000000
    /\ body_read = 0
    /\ out # << >>

\* ------------------------------------------------------------------------
\* C8  Header decode failure is fatal and silent: when the frame is shorter
\* than the fixed header fields, or its client_id length is below -1, or
\* exceeds the bytes that remain, or the client_id bytes are not valid text,
\* the handler stops without writing a byte and without reading another
\* frame; it takes no further step.
\* ------------------------------------------------------------------------
HeaderMalformed(buf) ==
    \/ Len(buf) < 10
    \/ LET l == i16_from_be_bytes(Slice(buf, 8, 2))
       IN  \/ l < -1
           \/ l > Len(buf) - 10
           \/ (l >= 0 /\ ~ValidUtf8(Slice(buf, 10, l)))

C8_HeaderFailureFatal ==
    [][ /\ (pc = "dispatch" /\ HeaderMalformed(request_buffer))
           => ( /\ pc' = "stopped"
                /\ stop' = "header"
                /\ response' = NoResponse
                /\ nreq' = nreq
                /\ out' = out )
        /\ stop # "header" ]_vars

\* the handler stopped on a bad header after answering a request
C8_Witness ==
    /\ pc = "stopped"
    /\ stop = "header"
    /\ nreq > 1
    /\ out # << >>

\* ------------------------------------------------------------------------
\* C9  Well-formed response frames only.
\* ------------------------------------------------------------------------
\* what is left of a byte string after its leading complete frames (4-byte
\* big-endian length, then that many bytes) are taken off
RECURSIVE StripFrames(_)
StripFrames(b) ==
    IF Len(b) < 4 THEN b
    ELSE LET n == i32_from_be_bytes(SubSeq(b, 1, 4))
         IN  IF n < 0 \/ Len(b) - 4 < n THEN b
             ELSE StripFrames(SubSeq(b, 5 + n, Len(b)))

WellFramed(b) == StripFrames(b) = << >>

\* as claimed: whenever no write is in progress, a failed write included,
\* the peer's bytes are a concatenation of complete frames
C9_OnlyCompleteFrames ==
    pc # "write_payload" => WellFramed(out)

\* as amended: the peer's bytes are a concatenation of complete frames,
\* each declaring exactly its payload's byte count, followed, only between
\* the two writes of a response or after a failed write, by a proper prefix
\* of one more frame
C9_FramesThenPrefix ==
    /\ pc \in {"read_size", "read_buf", "dispatch", "write_size", "flush"}
          => WellFramed(out)
    /\ (pc = "stopped" /\ stop # "io") => WellFramed(out)
    /\ pc = "write_payload"
          => StripFrames(out) = i32_to_be_bytes(Len(res_buf))
    /\ pc = "flush" =>
        /\ Suffix(out, Len(res_buf) + 4)
              = i32_to_be_bytes(Len(res_buf)) \o res_buf
        /\ WellFramed(SubSeq(out, 1, Len(out) - Len(res_buf) - 4))
    /\ (pc = "stopped" /\ stop = "io") =>
        LET p == StripFrames(out)
        IN  \/ Len(p) < 4
            \/ /\ i32_from_be_bytes(SubSeq(p, 1, 4)) > 0
               /\ Len(p) - 4 < i32_from_be_bytes(SubSeq(p, 1, 4))

\* a write failed inside the payload of the second response
C9_Witness ==
    /\ pc = "stopped"
    /\ stop = "io"
    /\ Len(StripFrames(out)) > 4
    /\ Len(out) > Len(StripFrames(out))

\* ------------------------------------------------------------------------
\* C10  Connection stays open on non-fatal failures, as claimed: the
\* handler stops only because of an I/O failure, a malformed frame length
\* or a header-decode failure.
\* ------------------------------------------------------------------------
C10_StopsOnlyOnFatal ==
    pc = "stopped" => stop \in {"io", "badlen", "header"}

\* ------------------------------------------------------------------------
\* C11  No pipelining, responses in request order: the handler is reading
\* a request only when every frame it has read has been answered and the
\* answer flushed; the responses flushed are never more than the frames
\* read and at most one fewer; the complete response frames the peer holds
\* carry, in order, the correlation ids of the requests answered.
\* ------------------------------------------------------------------------
\* the payloads of the leading complete frames of a byte string
RECURSIVE FramesOf(_)
FramesOf(b) ==
    IF Len(b) < 4 THEN << >>
    ELSE LET n == i32_from_be_bytes(SubSeq(b, 1, 4))
         IN  IF n < 0 \/ Len(b) - 4 < n THEN << >>
             ELSE << SubSeq(b, 5, 4 + n) >>
                    \o FramesOf(SubSeq(b, 5 + n, Len(b)))

C11_NoPipelining ==
    LET frames == FramesOf(out)
    IN  /\ pc \in {"read_size", "read_buf"}
            => responses_written = frames_read
        /\ responses_written <= frames_read
        /\ frames_read <= responses_written + 1
        /\ Len(frames) <= Len(answered)
        /\ Len(answered) <= Len(frames) + 1
        /\ responses_written <= Len(frames)
        /\ \A i \in 1..Len(frames) :
              WireCorrelationId(answered[i].kind, frames[i])
                  = answered[i].correlation_id

\* two requests with different correlation ids have been answered, and the
\* handler is back at reading
C11_Witness ==
    /\ pc = "read_size"
    /\ responses_written = 2
    /\ Len(FramesOf(out)) = 2
    /\ answered[1].correlation_id = -2
    /\ answered[2].correlation_id = 7

\* the failures dispatch can return
KafkaErrors ==
    { "Io", "CorruptedMessage", "InvalidMessageLength", "InvalidString",
      "UnsupportedApiVersion", "UnsupportedApiKey" }

\* the code the mapping is stated to give each failure
StatedErrorCode(e) ==
    IF e = "Io" THEN -1
    ELSE IF e \in {"CorruptedMessage", "InvalidMessageLength", "InvalidString"}
         THEN 2
    ELSE IF e = "UnsupportedApiVersion" THEN 35
    ELSE 42

\* C12: an I/O failure maps to -1, a corrupted message, an invalid message
\* length and an invalid string to 2, an unsupported version to 35 and an
\* unsupported key to 42; an error response is written exactly when dispatch
\* failed, and its error_code, in the record and on the wire, is the mapping
\* applied to that failure.
C12_ErrorCodeMapping ==
    /\ \A e \in KafkaErrors : to_error_code(e) = StatedErrorCode(e)
    /\ Writing =>
         LET r == process_request(Hdr, request_buffer)
         IN  /\ (response.kind = "Error") = ~r.ok
             /\ ~r.ok =>
                  /\ r.err \in KafkaErrors
                  /\ response.error_code = StatedErrorCode(r.err)
                  /\ res_buf = i32_to_be_bytes(Hdr.correlation_id)
                        \o i16_to_be_bytes(StatedErrorCode(r.err))

\* an error response for a text that is not UTF-8 has been written with code 2,
\* after one for an unsupported version with code 35
C12_Witness ==
    /\ pc = "read_size"
    /\ responses_written = 2
    /\ Len(out) = 20
    /\ SubSeq(out, 9, 10) = << 0, 35 >>
    /\ SubSeq(out, 19, 20) = << 0, 2 >>
    /\ answered[2].kind = "Error"

\* the rows of the Supported-API Table, in table order: key, min, max
SupportedApiTable == << << 18, 4, 4 >>, << 1, 16, 16 >> >>

\* one wire entry per row: key, min, max as 16-bit values and a tag byte 0
RECURSIVE TableEntries(_)
TableEntries(rows) ==
    IF rows = << >> THEN << >>
    ELSE i16_to_be_bytes(Head(rows)[1]) \o i16_to_be_bytes(Head(rows)[2])
            \o i16_to_be_bytes(Head(rows)[3]) \o << 0 >>
            \o TableEntries(Tail(rows))

\* C13: every ApiVersions request that passes the version check, whatever
\* bytes follow its header, is answered with correlation_id, error_code 0, a
\* count byte equal to the table size plus one, one entry {api_key, min, max,
\* tag byte 0} per table row in table order, throttle_time_ms 0 and a final
\* tag byte 0; the table carried by the response is the same in every state.
C13_WholeTable ==
    (Writing /\ Hdr.api_key = 18 /\ version_accepted(Hdr.api_ver)) =>
        /\ response.kind = "ApiVersions"
        /\ Len(response.api_key_versions) = Len(SupportedApiTable)
        /\ \A i \in DOMAIN SupportedApiTable :
              << response.api_key_versions[i].id,
                 response.api_key_versions[i].min,
                 response.api_key_versions[i].max >> = SupportedApiTable[i]
        /\ res_buf = i32_to_be_bytes(Hdr.correlation_id)
                        \o << 0, 0 >>
                        \o << Len(SupportedApiTable) + 1 >>
                        \o TableEntries(SupportedApiTable)
                        \o << 0, 0, 0, 0 >>
                        \o << 0 >>
        /\ pc = "flush" => Suffix(out, Len(res_buf)) = res_buf

\* the table has been written in answer to a request with two bytes after
\* its header, the second answer on the connection
C13_Witness ==
    /\ pc = "flush"
    /\ Hdr.api_key = 18
    /\ Len(request_buffer) = HdrEnd + 2
    /\ response.kind = "ApiVersions"
    /\ responses_written = 1
    /\ answered[1].kind = "ApiVersions"

\* C14: for every accepted request frame (at most 1,000,000 bytes), every
\* element count for which the Fetch decoder reserves storage for topics,
\* partitions and forgotten topics is at most 1,000,000, whatever counts the
\* body declares.
C14_ReservationBounded ==
    (Writing /\ Len(request_buffer) <= 1000000) =>
        \A count \in reserved(Hdr, request_buffer) : count <= 1000000

\* ------------------------------------------------------------------------
\* The response encoders on their own: send_response applied to responses
\* whose lists have 0..MaxListLen and 254 elements
\* ------------------------------------------------------------------------
MaxListLen == 3

ListLens == (0..MaxListLen) \cup {254}

ApiKeyRows(n) == [i \in 1..n |-> [id |-> i, min |-> 0, max |-> i]]

ResponsePartitions(m) ==
    [j \in 1..m |-> [partition_index |-> j, error_code |-> 0]]

ResponseTopics(n, m) ==
    [i \in 1..n |-> [topic_id |-> TopicId, partitions |-> ResponsePartitions(m)]]

EncoderInputs ==
    { [kind |-> "ApiVersions", correlation_id |-> c,
       api_key_versions |-> ApiKeyRows(n)] :
        c \in CorrIds, n \in ListLens }
    \cup
    { [kind |-> "Fetch", correlation_id |-> t[1], throttle_time_ms |-> 0,
       session_id |-> t[2], responses |-> ResponseTopics(t[3], t[4])] :
        t \in { u \in CorrIds \X {0, 1280} \X ListLens \X ListLens :
                    u[3] <= MaxListLen \/ u[4] <= MaxListLen } }

EncodeInit ==
    /\ pc = "encode"
    /\ response \in EncoderInputs
    /\ res_buf = << >>
    /\ stop = "running"
    /\ nreq = 0
    /\ size = 0
    /\ body_read = 0
    /\ request_buffer = << >>
    /\ out = << >>
    /\ frames_read = 0
    /\ responses_written = 0
    /\ answered = << >>
    /\ main_pc = "spawned"

\* the synchronous part of send_response
Encode ==
    /\ pc = "encode"
    /\ res_buf' = encode_response(response)
    /\ pc' = "encoded"
    /\ UNCHANGED << stop, nreq, size, body_read, request_buffer, response,
                    out, history, main_pc >>

EncodeNext == Encode

EncodeSpec == EncodeInit /\ [][EncodeNext]_vars

\* reading back k encoded topics from offset pos: the partition counts their
\* count bytes declare, and the offset after the last topic
RECURSIVE DecodeTopics(_, _, _)
DecodeTopics(buf, pos, k) ==
    IF k = 0 THEN [pos |-> pos, counts |-> << >>]
    ELSE IF k = 1
    THEN LET c == buf[pos + 17]
         IN  [pos |-> pos + 16 + 1 + (c - 1) * 7 + 1, counts |-> << c - 1 >>]
    ELSE LET front == DecodeTopics(buf, pos, k \div 2)
             back == DecodeTopics(buf, front.pos, k - k \div 2)
         IN  IF front.pos > Len(buf) THEN front
             ELSE [pos |-> back.pos, counts |-> front.counts \o back.counts]

\* C15: every list with n elements (0 <= n <= 254) the encoders emit is
\* preceded by one unsigned count byte equal to n+1, an empty list by the
\* byte 1, and the number of encoded elements that follow is the count byte
\* minus one.
C15_CompactArrayCount ==
    pc = "encoded" =>
        /\ response.kind = "ApiVersions" =>
             LET n == Len(response.api_key_versions)
                 count == res_buf[7]
             IN  /\ n <= 254 => count = n + 1
                 /\ n = 0 => count = 1
                 /\ Len(res_buf) = 6 + 1 + (count - 1) * 7 + 5
        /\ response.kind = "Fetch" =>
             LET n == Len(response.responses)
                 count == res_buf[15]
                 d == DecodeTopics(res_buf, 15, count - 1)
             IN  /\ n <= 254 => count = n + 1
                 /\ n = 0 => count = 1
                 /\ d.pos + 1 = Len(res_buf)
                 /\ Len(d.counts) = n
                 /\ \A i \in 1..n :
                        d.counts[i] = Len(response.responses[i].partitions)

\* 254 topics of three partitions each have been encoded
C15_Witness ==
    /\ pc = "encoded"
    /\ response.kind = "Fetch"
    /\ Len(response.responses) = 254
    /\ Len(response.responses[1].partitions) = 3
    /\ res_buf[15] = 255
    /\ res_buf[15 + 17] = 4

\* C16: for every Fetch request the body decoder starts at the byte after the
\* last byte the header decoder consumed, so what it decodes is what the
\* bytes after the header decode to, and no header byte is taken for a body
\* field.
C16_BodyAfterHeader ==
    (Writing /\ Hdr.api_key = 1 /\ version_accepted(Hdr.api_ver)) =>
        LET decoded == FetchRequest_parse(request_buffer, Hdr.correlation_id)
            after == FetchRequest_parse(Body, Hdr.correlation_id)
        IN  /\ decoded.ok = after.ok
            /\ decoded.ok => decoded.val = after.val
            /\ ~decoded.ok => decoded.err = after.err

\* C17: every Fetch request with a valid header and an accepted version
\* whose body fails to decode, for whatever reason (the body ends early, a
\* count is negative, the rack_id length is below -1, the rack_id bytes are
\* not valid text), is answered with ErrorResponse 2 and the request's
\* correlation id, and the handler goes on.
C17_MalformedBodyCorrupt ==
    ( /\ Writing
      /\ Hdr.api_key = 1
      /\ version_accepted(Hdr.api_ver)
      /\ ~FetchRequest_parse(Body, Hdr.correlation_id).ok )
    => ( /\ response.kind = "Error"
         /\ response.error_code = 2
         /\ response.correlation_id = Hdr.correlation_id
         /\ res_buf = i32_to_be_bytes(Hdr.correlation_id) \o << 0, 2 >>
         /\ stop = "running" )

\* C18: when the peer closes or the read fails after the length prefix and
\* before all declared payload bytes arrived, the read fails: nothing is
\* decoded or dispatched, nothing is written, the handler stops and takes no
\* further step; every frame handed to the header decoder has exactly the
\* declared length n, with 0 < n <= 1,000,000.
C18_NoPartialFrame ==
    [][ /\ (pc = "read_buf" /\ body_read' < size)
           => ( /\ pc' = "stopped"
                /\ stop' = "io"
                /\ request_buffer' = << >>
                /\ response' = NoResponse
                /\ res_buf' = << >>
                /\ out' = out
                /\ history' = history )
        /\ pc' = "dispatch"
           => ( /\ pc = "read_buf"
                /\ body_read' = size'
                /\ Len(request_buffer') = size'
                /\ 0 < size'
                /\ size' <= 1000000 )
        /\ pc # "stopped" ]_vars

\* the peer closed after one of the several payload bytes it declared, after an
\* earlier request had been answered
C18_Witness ==
    /\ pc = "stopped"
    /\ stop = "io"
    /\ size > 1
    /\ body_read = 1
    /\ frames_read = 1
    /\ responses_written = 1
    /\ out # << >>

\* ------------------------------------------------------------------------
\* The nullable-text reader on its own: read_nullable_string applied at a
\* cursor position of a buffer, and the rack_id field of FetchRequest::parse
\* applied to the same bytes.  Here request_buffer is the cursor's buffer,
\* size the cursor position before the read and body_read the position after
\* a successful read; response holds the result.
\* ------------------------------------------------------------------------
MaxTextLen == 2

\* one ASCII byte, the two bytes of a two-byte character, a byte that occurs
\* in no UTF-8 text
TextBytes == {97, 195, 169, 255}

RECURSIVE ByteStrings(_)
ByteStrings(n) ==
    IF n = 0 THEN { << >> }
    ELSE LET shorter == ByteStrings(n - 1)
         IN  shorter \cup { Append(t, b) : t \in shorter, b \in TextBytes }

TextLengths == {-32768, -2, -1, 0, 1, 2, 3, 32767}

ReaderInputs ==
    { pad \o i16_to_be_bytes(l) \o t :
        pad \in { << >>, << 9 >> }, l \in TextLengths,
        t \in ByteStrings(MaxTextLen) }
    \cup { << >>, << 9 >>, << 9, 0 >> }

ReaderInit ==
    /\ pc = "read_text"
    /\ request_buffer \in ReaderInputs
    /\ size \in {0, 1}
    /\ size <= Len(request_buffer)
    /\ body_read = size
    /\ response = NoResponse
    /\ res_buf = << >>
    /\ stop = "running"
    /\ nreq = 0
    /\ out = << >>
    /\ frames_read = 0
    /\ responses_written = 0
    /\ answered = << >>
    /\ main_pc = "spawned"

\* read_nullable_string at cursor position `size`
ReadNullableString ==
    /\ pc = "read_text"
    /\ LET r == read_nullable_string(request_buffer, size)
       IN  /\ response' = [kind |-> "NullableString", ok |-> r.ok,
                           some |-> r.ok /\ r.val.some,
                           text |-> IF r.ok THEN r.val.text ELSE << >>,
                           err |-> r.err]
           /\ body_read' = IF r.ok THEN r.pos ELSE body_read
    /\ pc' = "text_read"
    /\ UNCHANGED << stop, nreq, size, request_buffer, res_buf, out, history,
                    main_pc >>

\* a Fetch body without topics and forgotten topics, up to its rack_id
RackIdPrefix ==
    fetch_scalars(0, 0, 0, 0, 0, 0, 0) \o TAG_BUFFER \o i32_to_be_bytes(0)
        \o TAG_BUFFER

\* FetchRequest::parse on a body whose rack_id field is the bytes from the
\* cursor position on
ReadRackId ==
    /\ pc = "read_text"
    /\ LET body == RackIdPrefix
                     \o SubSeq(request_buffer, size + 1, Len(request_buffer))
           r == FetchRequest_parse(body, 0)
       IN  /\ response' = [kind |-> "RackId", ok |-> r.ok,
                           text |-> IF r.ok THEN r.val.rack_id ELSE << >>,
                           err |-> r.err]
           /\ body_read' = IF r.ok THEN size + r.pos - Len(RackIdPrefix)
                           ELSE body_read
    /\ pc' = "rack_id_read"
    /\ UNCHANGED << stop, nreq, size, request_buffer, res_buf, out, history,
                    main_pc >>

ReaderNext == ReadNullableString \/ ReadRackId

ReaderSpec == ReaderInit /\ [][ReaderNext]_vars

\* the bytes left at the cursor, the length field there, the bytes after it
Remaining == Len(request_buffer) - size
TextLen == i16_from_be_bytes(Slice(request_buffer, size, 2))
TextField == Slice(request_buffer, size + 2, TextLen)

\* C19, as claimed: the read consumes a 16-bit signed length len; len = -1
\* gives an absent text and consumes nothing more; len >= 0 consumes exactly
\* len more bytes and returns them as the text, failing if fewer than len
\* remain; every other negative len fails.
C19_AsClaimed ==
    (pc = "text_read" /\ Remaining >= 2) =>
        /\ TextLen = -1 =>
             response.ok /\ ~response.some /\ body_read = size + 2
        /\ TextLen < -1 => ~response.ok
        /\ (TextLen >= 0 /\ Remaining - 2 < TextLen) => ~response.ok
        /\ (TextLen >= 0 /\ Remaining - 2 >= TextLen) =>
             /\ response.ok /\ response.some
             /\ response.text = TextField
             /\ body_read = size + 2 + TextLen

\* C19, as amended: the read consumes a 16-bit signed length len and fails
\* when fewer than two bytes remain; len = -1 gives an absent text and
\* consumes nothing more; len >= 0 consumes exactly len more bytes and
\* returns them as the text, failing if fewer than len remain or if the
\* bytes are not valid UTF-8; every other negative len fails; an absent
\* rack_id of a Fetch request is decoded as the empty text and a present one
\* as its text.
C19_NullableText ==
    /\ (pc = "text_read" /\ Remaining < 2) =>
         ~response.ok /\ response.err = "Io"
    /\ (pc = "text_read" /\ Remaining >= 2) =>
        /\ TextLen = -1 =>
             response.ok /\ ~response.some /\ body_read = size + 2
        /\ TextLen < -1 =>
             ~response.ok /\ response.err = "InvalidMessageLength"
        /\ (TextLen >= 0 /\ Remaining - 2 < TextLen) =>
             ~response.ok /\ response.err = "Io"
        /\ (TextLen >= 0 /\ Remaining - 2 >= TextLen
                /\ ~ValidUtf8(TextField)) =>
             ~response.ok /\ response.err = "InvalidString"
        /\ (TextLen >= 0 /\ Remaining - 2 >= TextLen
                /\ ValidUtf8(TextField)) =>
             /\ response.ok /\ response.some
             /\ response.text = TextField
             /\ body_read = size + 2 + TextLen
    /\ (pc = "rack_id_read" /\ Remaining >= 2) =>
        /\ TextLen = -1 =>
             response.ok /\ response.text = << >> /\ body_read = size + 2
        /\ (TextLen >= 0 /\ Remaining - 2 >= TextLen
                /\ ValidUtf8(TextField)) =>
             response.ok /\ response.text = TextField
        /\ response.ok => TextLen >= -1

\* a two-byte character has been read as a text from cursor position 1
C19_Witness ==
    /\ pc = "text_read"
    /\ size = 1
    /\ response.ok
    /\ response.some
    /\ response.text = << 195, 169 >>
    /\ body_read = 5

\* ------------------------------------------------------------------------
\* The entry point (main.rs) together with the handler it spawns.  main_pc
\* is main's position: bind, accept, spawned (the handler task exists and
\* main has not returned yet), exited.  When main returns the runtime is
\* dropped and the process ends: the handler task is cancelled wherever it
\* is, possibly after taking further steps on a worker thread.
\* ------------------------------------------------------------------------
MainInit ==
    /\ main_pc = "bind"
    /\ pc = "unspawned"
    /\ stop = "running"
    /\ nreq = 0
    /\ size = 0
    /\ body_read = 0
    /\ request_buffer = << >>
    /\ response = NoResponse
    /\ res_buf = << >>
    /\ out = << >>
    /\ frames_read = 0
    /\ responses_written = 0
    /\ answered = << >>

\* TcpListener::bind succeeds
Bind ==
    /\ main_pc = "bind"
    /\ main_pc' = "accept"
    /\ UNCHANGED << pc, stop, nreq, size, body_read, request_buffer, response,
                    res_buf, out, history >>

\* TcpListener::bind fails: `?` returns the error from main
BindFails ==
    /\ main_pc = "bind"
    /\ main_pc' = "exited"
    /\ UNCHANGED << pc, stop, nreq, size, body_read, request_buffer, response,
                    res_buf, out, history >>

\* listener.accept() yields a connection: the handler task is spawned
Accept ==
    /\ main_pc = "accept"
    /\ main_pc' = "spawned"
    /\ pc' = "read_size"
    /\ UNCHANGED << stop, nreq, size, body_read, request_buffer, response,
                    res_buf, out, history >>

\* listener.accept() fails: the error is printed and main returns
AcceptFails ==
    /\ main_pc = "accept"
    /\ main_pc' = "exited"
    /\ UNCHANGED << pc, stop, nreq, size, body_read, request_buffer, response,
                    res_buf, out, history >>

\* after the match main returns Ok(()), whatever the handler is doing
MainReturn ==
    /\ main_pc = "spawned"
    /\ main_pc' = "exited"
    /\ UNCHANGED << pc, stop, nreq, size, body_read, request_buffer, response,
                    res_buf, out, history >>

\* main has returned: the runtime shuts down and drops the handler task
Cancel ==
    /\ main_pc = "exited"
    /\ pc \notin {"unspawned", "stopped"}
    /\ Stopped("cancelled")
    /\ UNCHANGED << nreq, size, body_read, out, history, main_pc >>

MainNext ==
    \/ Bind
    \/ BindFails
    \/ Accept
    \/ AcceptFails
    \/ MainReturn
    \/ Cancel
    \/ Next

MainSpec == MainInit /\ [][MainNext]_vars

\* C20: once the entry point has accepted a connection and spawned its
\* handler, it does not terminate while the handler is still active: whenever
\* the entry point has returned, the handler either was never spawned or has
\* stopped by itself (peer disconnect or fatal error), so no request frame
\* that was read is left without its response by a cancellation.
C20_ServedToCompletion ==
    /\ main_pc = "exited" => pc \in {"unspawned", "stopped"}
    /\ stop # "cancelled"
====
